---- MODULE Spec2Model ----
(***************************************************************************)
(* Model of the subtitle extraction and frame-time synchronisation engine  *)
(* of frame-poster: src/src/frame_utils.py (timestamp codec) and           *)
(* src/src/subtitles.py (sanitizer, parsers, resolver, aggregator), and of *)
(* the posting loop of src/main.py.                                        *)
(*                                                                         *)
(* Conventions.                                                            *)
(*  - Python str values are TLA+ strings; a character is a string of       *)
(*    length 1.  The three non-ASCII glyphs of the captions are written    *)
(*    with ASCII stand-ins that no input of the model contains:            *)
(*    "<" for U+3010, ">" for U+3011, "~" for U+266A.                      *)
(*  - Seconds are kept in centiseconds (integers): every value the code    *)
(*    computes as H*3600 + M*60 + S + int(cc)/100 is an exact multiple of  *)
(*    1/100.  A frame rate is a pair <<num, den>> standing for num/den.    *)
(*  - The code computes in IEEE-754 doubles.  The model computes exactly   *)
(*    and lets the outcome be either one where the doubles decide it: a    *)
(*    rounding whose exact argument is a tie (x.5), and a comparison of    *)
(*    two separately rounded values that are exactly equal but not         *)
(*    representable in binary.  The flag "fuzz" of an operator is that     *)
(*    choice.                                                              *)
(***************************************************************************)
EXTENDS Integers, Sequences, FiniteSets, TLC

\* ------------------------------------------------------------------ strings

\* s[m-1:n] of Python (positions counted from 1, both ends included), the
\* range clipped to the string.
Slice(s, m, n) ==
  LET a == IF m < 1 THEN 1 ELSE m
      b == IF n > Len(s) THEN Len(s) ELSE n
  IN IF a > b THEN "" ELSE SubSeq(s, a, b)

\* The character at position i of s, "" when s has no such position.
Char(s, i) == Slice(s, i, i)

Digits == {"0", "1", "2", "3", "4", "5", "6", "7", "8", "9"}

LowerLetters ==
  {"a", "b", "c", "d", "e", "f", "g", "h", "i", "j", "k", "l", "m",
   "n", "o", "p", "q", "r", "s", "t", "u", "v", "w", "x", "y", "z"}

UpperLetters ==
  {"A", "B", "C", "D", "E", "F", "G", "H", "I", "J", "K", "L", "M",
   "N", "O", "P", "Q", "R", "S", "T", "U", "V", "W", "X", "Y", "Z"}

Letters == LowerLetters \cup UpperLetters

\* \s of the re module, over the characters the model uses.
Whitespace == {" ", "\n", "\t"}

\* \w of the re module.
WordChars == Letters \cup Digits \cup {"_"}

UpperSeq == "ABCDEFGHIJKLMNOPQRSTUVWXYZ"

LowerSeq == "abcdefghijklmnopqrstuvwxyz"

\* str.lower() of one character.
LowerChar(c) ==
  IF c \in UpperLetters
    THEN Char(LowerSeq, CHOOSE i \in 1..26 : Char(UpperSeq, i) = c)
    ELSE c

RECURSIVE Lower(_)
Lower(s) == IF s = "" THEN "" ELSE LowerChar(Head(s)) \o Lower(Tail(s))

DigitSeq == "0123456789"

DigitVal(c) == (CHOOSE i \in 1..10 : Char(DigitSeq, i) = c) - 1

\* The strings int() accepts, restricted to plain decimal digits (int() also
\* takes a sign, surrounding blanks and underscores; no input of the model
\* has them).
IsInt(s) == s # "" /\ \A i \in 1..Len(s) : Char(s, i) \in Digits

RECURSIVE ToInt(_)
ToInt(s) ==
  IF s = "" THEN 0
  ELSE ToInt(Slice(s, 1, Len(s) - 1)) * 10 + DigitVal(Char(s, Len(s)))

\* str(n) of a natural number.
RECURSIVE NatToStr(_)
NatToStr(n) ==
  IF n < 10 THEN Char(DigitSeq, n + 1)
  ELSE NatToStr(n \div 10) \o Char(DigitSeq, (n % 10) + 1)

\* str(n) of an integer.
IntToStr(n) == IF n < 0 THEN "-" \o NatToStr(-n) ELSE NatToStr(n)

\* format(n, "02"): zero-padded to width 2, the sign counted in the width.
Pad2(n) ==
  IF n < 0 THEN (IF n > -10 THEN "-" \o NatToStr(-n) ELSE IntToStr(n))
  ELSE IF n < 10 THEN "0" \o NatToStr(n)
  ELSE NatToStr(n)

\* The index of the first occurrence of character c in s at or after i,
\* or 0 when there is none.
RECURSIVE FindChar(_, _, _)
FindChar(s, c, i) ==
  IF i > Len(s) THEN 0
  ELSE IF Char(s, i) = c THEN i
  ELSE FindChar(s, c, i + 1)

\* s.split(c): the sequence of the pieces of s between the occurrences of c.
RECURSIVE Split(_, _)
Split(s, c) ==
  LET k == FindChar(s, c, 1)
  IN IF k = 0 THEN <<s>>
     ELSE <<Slice(s, 1, k - 1)>> \o Split(Slice(s, k + 1, Len(s)), c)

\* s.split(c, n): at most n splits, the rest of s kept whole in the last piece.
RECURSIVE SplitMax(_, _, _)
SplitMax(s, c, n) ==
  LET k == FindChar(s, c, 1)
  IN IF n = 0 \/ k = 0 THEN <<s>>
     ELSE <<Slice(s, 1, k - 1)>> \o SplitMax(Slice(s, k + 1, Len(s)), c, n - 1)

\* s.startswith(p)
StartsWith(s, p) == Len(s) >= Len(p) /\ Slice(s, 1, Len(p)) = p

\* sep.join(parts)
RECURSIVE Join(_, _)
Join(sep, parts) ==
  IF parts = <<>> THEN ""
  ELSE IF Len(parts) = 1 THEN parts[1]
  ELSE parts[1] \o sep \o Join(sep, Tail(parts))

\* s.strip() / s.rstrip("\n")
RECURSIVE LStrip(_)
LStrip(s) == IF s # "" /\ Head(s) \in Whitespace THEN LStrip(Tail(s)) ELSE s

RECURSIVE RStrip(_)
RStrip(s) ==
  IF s # "" /\ Char(s, Len(s)) \in Whitespace
    THEN RStrip(Slice(s, 1, Len(s) - 1))
    ELSE s

Strip(s) == RStrip(LStrip(s))

RECURSIVE RStripNewline(_)
RStripNewline(s) ==
  IF s # "" /\ Char(s, Len(s)) = "\n"
    THEN RStripNewline(Slice(s, 1, Len(s) - 1))
    ELSE s

\* ---------------------------------------------------------- timestamp codec

\* The None a codec function returns after logging an exception.
NoneSeconds == -1

\* int(numer / denom) for denom > 0: the quotient cut, not rounded.
TruncDiv(numer, denom, fuzz) == numer \div denom

\* round(numer / denom) for denom > 0: to the nearest integer; at an exact tie
\* the double arithmetic decides (round() itself rounds half to even, but its
\* argument carries the representation error of the operands), so either
\* neighbour: the upper one when fuzz holds.
RoundDiv(numer, denom, fuzz) ==
  LET f == numer \div denom
      r == numer % denom
  IN IF 2 * r < denom THEN f
     ELSE IF 2 * r > denom THEN f + 1
     ELSE IF fuzz THEN f + 1 ELSE f

\* The three-way unpacking "h, m, s = time_str.split(':')" followed by
\* "s, cc = s.split('.')": the fields, or <<>> when an unpacking fails.
TimestampFields(time_str) ==
  LET hms == Split(time_str, ":")
  IN IF Len(hms) # 3 THEN <<>>
     ELSE LET scc == Split(hms[3], ".")
          IN IF Len(scc) # 2 THEN <<>>
             ELSE <<hms[1], hms[2], scc[1], scc[2]>>

\* cc.ljust(2, "0")
LJust2(cc) ==
  IF Len(cc) = 0 THEN "00" ELSE IF Len(cc) = 1 THEN cc \o "0" ELSE cc

\* timestamp_to_seconds(time_str): the total in centiseconds, or NoneSeconds.
timestamp_to_seconds(time_str) ==
  LET f == TimestampFields(time_str)
  IN IF f = <<>> THEN NoneSeconds
     ELSE LET cc == LJust2(f[4])
          IN IF IsInt(f[1]) /\ IsInt(f[2]) /\ IsInt(f[3]) /\ IsInt(cc)
               THEN (ToInt(f[1]) * 3600 + ToInt(f[2]) * 60 + ToInt(f[3])) * 100
                    + ToInt(cc)
               ELSE NoneSeconds

\* A frame number that was not produced (None).
NoneFrame == -1

\* timestamp_to_frame(timestamp, fps) for fps = num/den > 0: the rounded frame
\* number, or NoneFrame.  The fractional field is not padded here.
timestamp_to_frame(timestamp, num, den, fuzz) ==
  LET f == TimestampFields(timestamp)
  IN IF f = <<>> THEN NoneFrame
     ELSE IF IsInt(f[1]) /\ IsInt(f[2]) /\ IsInt(f[3]) /\ IsInt(f[4])
       THEN LET cs == (ToInt(f[1]) * 3600 + ToInt(f[2]) * 60 + ToInt(f[3])) * 100
                      + ToInt(f[4])
            IN RoundDiv(cs * num, 100 * den, fuzz)
       ELSE NoneFrame

\* The None that stands where the code has a str or None: no caption, no
\* timestamp, an unset field.  No str of the model's inputs or outputs is equal
\* to it.
NoneStr == "None"

\* The fields as the rounding of the centiseconds leaves them, carried nowhere.
Uncarried(hours, minutes, seconds, centiseconds) ==
  <<hours, minutes, seconds, centiseconds>>

\* The carry of frame_to_timestamp: <<hours, minutes, seconds, centiseconds>>
\* after the rounding of the centiseconds.
Carry(hours, minutes, seconds, centiseconds) ==
  IF centiseconds = 100
    THEN IF seconds + 1 = 60
           THEN IF minutes + 1 = 60
                  THEN <<hours + 1, 0, 0, 0>>
                  ELSE <<hours, minutes + 1, 0, 0>>
           ELSE <<hours, minutes, seconds + 1, 0>>
    ELSE <<hours, minutes, seconds, centiseconds>>

\* frame_to_timestamp(current_frame, img_fps) for img_fps = num/den: the text
\* H:MM:SS.CC, or NoneStr when the division raises (img_fps = 0).
frame_to_timestamp(current_frame, num, den, fuzz) ==
  IF num = 0 THEN NoneStr
  ELSE LET t == IF num > 0 THEN current_frame * den ELSE -(current_frame * den)
           n == IF num > 0 THEN num ELSE -num
           \* total_seconds = t / n; divmod floors.
           whole == t \div n
           hours == whole \div 3600
           remainder == whole % 3600
           minutes == remainder \div 60
           seconds == remainder % 60
           centiseconds == RoundDiv((t % n) * 100, n, fuzz)
           c == Carry(hours, minutes, seconds, centiseconds)
       IN IntToStr(c[1]) \o ":" \o Pad2(c[2]) \o ":" \o Pad2(c[3]) \o "."
          \o Pad2(c[4])

\* ------------------------------------------------------------- cue sanitizer

\* The number of characters of s from position i on that belong to set.
RECURSIVE RunLen(_, _, _)
RunLen(s, i, set) ==
  IF i <= Len(s) /\ Char(s, i) \in set THEN 1 + RunLen(s, i + 1, set) ELSE 0

HexDigits == Digits \cup {"a", "b", "c", "d", "e", "f", "A", "B", "C", "D", "E", "F"}

\* The length of the match of the tag pattern at position i of s, 0 when it
\* does not match there.  The four alternatives are tried in the order of the
\* pattern and the first that matches is taken:
\*   \{\s*[^}]*\s*\}      up to the first "}" that follows
\*   \\N
\*   \\[a-zA-Z]+\d*
\*   \\c&H[0-9A-Fa-f]+&
TagMatchLen(s, i) ==
  LET c == Char(s, i)
      close == FindChar(s, "}", i + 1)
      letters == RunLen(s, i + 1, Letters)
      hex == RunLen(s, i + 4, HexDigits)
  IN IF c = "{" /\ close # 0 THEN close - i + 1
     ELSE IF c # "\\" THEN 0
     ELSE IF Char(s, i + 1) = "N" THEN 2
     ELSE IF letters > 0 THEN 1 + letters + RunLen(s, i + 1 + letters, Digits)
     ELSE IF Slice(s, i + 1, i + 3) = "c&H" /\ hex > 0
             /\ Char(s, i + 4 + hex) = "&" THEN 5 + hex
     ELSE 0

\* Every match, left to right, taken out and nothing put in its place.
RECURSIVE DeleteTags(_, _)
DeleteTags(s, i) ==
  IF i > Len(s) THEN ""
  ELSE LET n == TagMatchLen(s, i)
       IN IF n > 0 THEN DeleteTags(s, i + n)
          ELSE Char(s, i) \o DeleteTags(s, i + 1)

\* pattern.sub(" ", message): every match, left to right, replaced by a blank.
RECURSIVE SubTags(_, _)
SubTags(s, i) ==
  IF i > Len(s) THEN ""
  ELSE LET n == TagMatchLen(s, i)
       IN IF n > 0 THEN " " \o SubTags(s, i + n)
          ELSE Char(s, i) \o SubTags(s, i + 1)

\* re.sub(r"\s+", " ", s)
RECURSIVE CollapseWhitespace(_)
CollapseWhitespace(s) ==
  IF s = "" THEN ""
  ELSE IF Head(s) \in Whitespace THEN " " \o CollapseWhitespace(LStrip(s))
  ELSE Head(s) \o CollapseWhitespace(Tail(s))

\* remove_tags(message) of a str.
remove_tags(message) ==
  IF message = "" THEN message
  ELSE Strip(CollapseWhitespace(SubTags(message, 1)))

\* ------------------------------------------------------------ classification

\* Whether needle occurs in s.
Contains(s, needle) ==
  \E i \in 1..(Len(s) - Len(needle) + 1) : Slice(s, i, i + Len(needle) - 1) = needle

\* SIGN_EXPRESSION.search(s): r"sign|signs", re.IGNORECASE.
SIGN_EXPRESSION(s) == Contains(Lower(s), "sign") \/ Contains(Lower(s), "signs")

\* Whether word occurs in s between two \b, letter case ignored.
HasWord(s, word) ==
  \E i \in 1..(Len(s) - Len(word) + 1) :
    /\ Lower(Slice(s, i, i + Len(word) - 1)) = word
    /\ (i = 1 \/ Char(s, i - 1) \notin WordChars)
    /\ (i + Len(word) > Len(s) \/ Char(s, i + Len(word)) \notin WordChars)

\* EXPRESSION_MUSIC.search(s):
\* r"\blyric(s)?\b|\bsong(s)?\b|\bopening\b|\bending\b|\bop\b|\bed\b", re.IGNORECASE.
EXPRESSION_MUSIC(s) ==
  \E word \in {"lyric", "lyrics", "song", "songs", "opening", "ending", "op", "ed"} :
    HasWord(s, word)

\* The stand-ins of the three non-ASCII glyphs of the captions.
SignOpen == "<"

SignClose == ">"

Note == "~"

\* ----------------------------------------------------------- language names

\* LANGUAGE_CODES.get(code, "Unknown"), over the codes whose names are ASCII.
LanguageName(code) ==
  CASE code = "en" -> "English"
    [] code = "de" -> "Deutsch"
    [] code = "it" -> "Italiano"
    [] code = "nl" -> "Nederlands"
    [] code = "id" -> "Bahasa Indonesia"
    [] code = "tl" -> "Tagalog"
    [] OTHER -> "Unknown"

\* The outcome of detect(text) that the language detector (a statistical,
\* external library) gives: "error" stands for the exception it raises, which
\* it always does on a text without a letter; otherwise the outcome is the
\* environment's, passed in as detected.
Detect(text, detected) ==
  IF \A i \in 1..Len(text) : Char(text, i) \notin Letters THEN "error"
  ELSE detected

\* The try/except around detect: the name of the detected language.
DetectLanguage(text, detected) ==
  IF Detect(text, detected) = "error" THEN "Unknown"
  ELSE LanguageName(Detect(text, detected))

\* --------------------------------------------------------------- the parsers

\* What a call gives: a value, or an exception that leaves the callee.
Returned(v) == [raised |-> FALSE, value |-> v]

Raised == [raised |-> TRUE, value |-> <<>>]

\* line.split(",", 9)
Parts(line) == SplitMax(line, ",", 9)

\* The entry parse_ass_file appends for a Dialogue line of at least 10 fields.
AssEntry(parts) ==
  [Layer |-> parts[1],
   Start |-> timestamp_to_seconds(parts[2]),
   End |-> timestamp_to_seconds(parts[3]),
   Style |-> parts[4],
   Actor |-> parts[5],
   MarginL |-> parts[6],
   MarginR |-> parts[7],
   MarginV |-> parts[8],
   Effect |-> parts[9],
   Text |-> remove_tags(parts[10])]

\* The loop of parse_ass_file over the Dialogue lines: a line whose fields
\* raise inside the try block is skipped.
RECURSIVE AssEntries(_)
AssEntries(dialogues) ==
  IF dialogues = <<>> THEN <<>>
  ELSE LET parts == Parts(Head(dialogues))
       IN (IF Len(parts) < 10 THEN <<>> ELSE <<AssEntry(parts)>>)
          \o AssEntries(Tail(dialogues))

\* The Dialogue lines of a file.
Dialogues(lines) == SelectSeq(lines, LAMBDA line : StartsWith(line, "Dialogue:"))

\* The text handed to the language detector: the generator expression indexes
\* parts[9] of every Dialogue line outside any try block.
DialoguesText(dialogues) ==
  Join(" ", [i \in 1..Len(dialogues) |-> remove_tags(Parts(dialogues[i])[10])])

\* parse_ass_file on a file of the given name and lines.
parse_ass_file(file_name, lines, detected) ==
  LET dialogues == Dialogues(lines)
  IN IF \E i \in 1..Len(dialogues) : Len(Parts(dialogues[i])) < 10
       THEN Raised
       ELSE Returned([file_name |-> file_name,
                      language |-> DetectLanguage(DialoguesText(dialogues), detected),
                      subtitles |-> AssEntries(dialogues)])

\* A call of timestamp_to_seconds with the given keyword arguments: the
\* function takes the one positional parameter time_str and no other, so a
\* call that passes a keyword raises TypeError before the body runs.
timestamp_to_seconds_call(time_str, keywords) ==
  IF keywords # {} THEN Raised ELSE Returned(timestamp_to_seconds(time_str))

\* \d{2}:\d{2}:\d{2},\d{3}
IsSrtTimestamp(s) ==
  /\ Len(s) = 12
  /\ \A i \in {1, 2, 4, 5, 7, 8, 10, 11, 12} : Char(s, i) \in Digits
  /\ Char(s, 3) = ":" /\ Char(s, 6) = ":" /\ Char(s, 9) = ","

\* time_line_regex.match(line).groups(), or <<>> when the line does not match
\* ^(\d{2}:\d{2}:\d{2},\d{3})\s*-->\s*(\d{2}:\d{2}:\d{2},\d{3})$
TimeLineGroups(line) ==
  LET arrow == LStrip(Slice(line, 13, Len(line)))
      second == LStrip(Slice(arrow, 4, Len(arrow)))
  IN IF IsSrtTimestamp(Slice(line, 1, 12)) /\ StartsWith(arrow, "-->")
        /\ IsSrtTimestamp(second)
       THEN <<Slice(line, 1, 12), second>>
       ELSE <<>>

\* str.isdigit()
IsDigit(s) == s # "" /\ \A i \in 1..Len(s) : Char(s, i) \in Digits

\* The index after the text lines that start at i: the first blank line at or
\* after i, or Len(lines) + 1.
RECURSIVE TextEnd(_, _)
TextEnd(lines, i) ==
  IF i <= Len(lines) /\ Strip(lines[i]) # "" THEN TextEnd(lines, i + 1) ELSE i

\* The entry parse_srt_file appends for a block.
SrtEntry(start_seconds, end_seconds, text) ==
  [Start |-> start_seconds,
   End |-> end_seconds,
   Style |-> NoneStr,
   Actor |-> NoneStr,
   MarginL |-> NoneStr,
   MarginR |-> NoneStr,
   MarginV |-> NoneStr,
   Effect |-> NoneStr,
   Text |-> text]

\* The state of the block scanner of parse_srt_file.
SrtStart == [i |-> 1, subtitles_data |-> <<>>, collected_text_lines |-> <<>>]

\* The index after the optional numeric index line at i.
IndexEnd(lines, i) == IF IsDigit(Strip(lines[i])) THEN i + 1 ELSE i

\* The groups of the time range line expected at j, <<>> when j is past the
\* end (the loop breaks before the match) or the line does not match.
GroupsAt(lines, j) == IF j <= Len(lines) THEN TimeLineGroups(lines[j]) ELSE <<>>

\* An iteration that stays at a blank line and moves past any other line.
SrtStall(lines, st, j, groups, k) ==
  [st EXCEPT !.i = IF Strip(lines[st.i]) = "" THEN st.i ELSE st.i + 1]

\* One iteration of the outer while loop of parse_srt_file, entered with
\* st.i <= Len(lines); j is the index after the optional index line, groups
\* the match of the time range line at j, k the index after the text lines.
\* (The model counts lines from 1, the code from 0.)
SrtBlock(lines, st, j, groups, k) ==
  LET i == st.i
      text_lines == SubSeq(lines, j + 1, k - 1)
      text == remove_tags(Strip(Join(" ", text_lines)))
      start_seconds == timestamp_to_seconds_call(groups[1], {"format"})
      end_seconds == timestamp_to_seconds_call(groups[2], {"format"})
  IN IF Strip(lines[i]) = "" THEN [st EXCEPT !.i = i + 1]
     ELSE IF j > Len(lines) THEN [st EXCEPT !.i = j]
     ELSE IF groups = <<>> THEN [st EXCEPT !.i = j + 1]
     ELSE IF start_seconds.raised \/ end_seconds.raised THEN [st EXCEPT !.i = k + 1]
     ELSE [i |-> IF k <= Len(lines) /\ Strip(lines[k]) = "" THEN k + 1 ELSE k,
           subtitles_data |->
             Append(st.subtitles_data,
                    SrtEntry(start_seconds.value, end_seconds.value, text)),
           collected_text_lines |-> st.collected_text_lines \o text_lines]

SrtStep(lines, st) ==
  LET j == IndexEnd(lines, st.i)
  IN SrtBlock(lines, st, j, GroupsAt(lines, j), TextEnd(lines, j + 1))

\* The outer while loop of parse_srt_file.
RECURSIVE SrtScan(_, _)
SrtScan(lines, st) ==
  IF st.i > Len(lines) THEN st ELSE SrtScan(lines, SrtStep(lines, st))

\* [line.rstrip("\n") for line in f]
RStripLines(lines) == [i \in 1..Len(lines) |-> RStripNewline(lines[i])]

\* parse_srt_file on a file of the given name and lines.
parse_srt_file(file_name, lines, detected) ==
  LET st == SrtScan(RStripLines(lines), SrtStart)
  IN Returned([file_name |-> file_name,
               language |-> DetectLanguage(Join(" ", st.collected_text_lines), detected),
               subtitles |-> st.subtitles_data])

\* -------------------------------------------------------------- the resolver

\* How the double time = frame_number / img_fps (img_fps = num/den, not 0)
\* compares with the double of a cue time of cs centiseconds: -1 below, 0
\* equal, 1 above.  Where the exact values differ the doubles agree with them.
\* Where they are equal the two doubles are the same when the cue time has no
\* whole seconds (both are then the one rounding of the same number) or is a
\* multiple of a quarter second (exact in binary); otherwise the sum
\* whole + int(cc)/100 has been rounded twice and the quotient once, and fuzz
\* (-1, 0 or 1) is how they come out.
CompareTime(frame_number, num, den, cs, fuzz) ==
  LET t == IF num > 0 THEN frame_number * den * 100 ELSE -(frame_number * den * 100)
      c == IF num > 0 THEN cs * num ELSE cs * (-num)
  IN IF t < c THEN -1
     ELSE IF t > c THEN 1
     ELSE IF cs < 100 \/ cs % 25 = 0 THEN 0
     ELSE fuzz

\* The test sub["Start"] <= time <= sub["End"] of a cue: "raised" when an
\* operand that gets compared is None (TypeError), else "active" or "inactive".
\* The chained comparison does not look at End when the first test fails.
ActiveTest(sub, frame_number, num, den, fuzz) ==
  IF sub.Start = NoneSeconds THEN "raised"
  ELSE IF CompareTime(frame_number, num, den, sub.Start, fuzz) < 0 THEN "inactive"
  ELSE IF sub.End = NoneSeconds THEN "raised"
  ELSE IF CompareTime(frame_number, num, den, sub.End, fuzz) > 0 THEN "inactive"
  ELSE "active"

\* (sub.get("Style") or ""), (sub.get("Actor") or "")
OrEmpty(field) == IF field = NoneStr THEN "" ELSE field

\* The sign and song tests in the other order: the song test first.
ClassifySongFirst(style, actor, text) ==
  IF EXPRESSION_MUSIC(style) \/ EXPRESSION_MUSIC(actor)
    THEN Note \o " " \o text \o " " \o Note \o "\n"
  ELSE IF SIGN_EXPRESSION(style) \/ SIGN_EXPRESSION(actor)
    THEN SignOpen \o " " \o text \o " " \o SignClose
  ELSE text

\* The text of a cue after the sign and song tests of __ass_format.
Classify(style, actor, text) ==
  IF SIGN_EXPRESSION(style) \/ SIGN_EXPRESSION(actor)
    THEN SignOpen \o " " \o text \o " " \o SignClose
  ELSE IF EXPRESSION_MUSIC(style) \/ EXPRESSION_MUSIC(actor)
    THEN Note \o " " \o text \o " " \o Note \o "\n"
  ELSE text

\* f"[{lang}]\n{text}" if text else None
Caption(lang, text) == IF text # "" THEN "[" \o lang \o "]\n" \o text ELSE NoneStr

\* The loop of __ass_format over the cues from the given one on.
RECURSIVE AssScan(_, _, _, _, _, _)
AssScan(subs, lang, frame_number, num, den, fuzz) ==
  IF subs = <<>> THEN Returned(NoneStr)
  ELSE LET sub == Head(subs)
           test == ActiveTest(sub, frame_number, num, den, fuzz)
       IN IF test = "raised" THEN Raised
          ELSE IF test = "active"
            THEN Returned(Caption(lang,
                   Classify(OrEmpty(sub.Style), OrEmpty(sub.Actor), sub.Text)))
          ELSE AssScan(Tail(subs), lang, frame_number, num, den, fuzz)

\* __ass_format(frame_number, img_fps, subtitles_data): the division raises
\* on img_fps = 0.
ass_format(frame_number, num, den, subtitles_data, fuzz) ==
  IF num = 0 THEN Raised
  ELSE AssScan(subtitles_data.subtitles, subtitles_data.language,
               frame_number, num, den, fuzz)

\* The loop of __srt_format over the cues from the given one on.
RECURSIVE SrtFormatScan(_, _, _, _, _, _)
SrtFormatScan(subs, lang, frame_number, num, den, fuzz) ==
  IF subs = <<>> THEN Returned(NoneStr)
  ELSE LET sub == Head(subs)
           test == ActiveTest(sub, frame_number, num, den, fuzz)
       IN IF test = "raised" THEN Raised
          ELSE IF test = "active" THEN Returned(Caption(lang, sub.Text))
          ELSE SrtFormatScan(Tail(subs), lang, frame_number, num, den, fuzz)

\* __srt_format(frame_number, img_fps, subtitles_data)
srt_format(frame_number, num, den, subtitles_data, fuzz) ==
  IF num = 0 THEN Raised
  ELSE SrtFormatScan(subtitles_data.subtitles, subtitles_data.language,
                     frame_number, num, den, fuzz)

\* ------------------------------------------------------------- the LRU cache

\* maxsize of functools.lru_cache on parse_ass_file and on parse_srt_file.
CacheSize == 32

\* A cache is the sequence of its entries [key, value], the least recently
\* used first.
CacheKeys(cache) == {cache[i].key : i \in 1..Len(cache)}

CacheIndex(cache, key) == CHOOSE i \in 1..Len(cache) : cache[i].key = key

CacheValue(cache, key) == cache[CacheIndex(cache, key)].value

\* A cache that answers no call.
CacheMiss(cache, key) == FALSE

\* Whether a call with this key is answered from the cache.
CacheHit(cache, key) == key \in CacheKeys(cache)

\* The cache after a hit on key: the entry becomes the most recently used.
CacheTouch(cache, key) ==
  LET i == CacheIndex(cache, key)
  IN SubSeq(cache, 1, i - 1) \o SubSeq(cache, i + 1, Len(cache)) \o <<cache[i]>>

\* The cache after a miss on key whose call returned value: the new entry is
\* the most recently used; a full cache drops its least recently used entry.
CacheInsert(cache, key, value) ==
  LET added == Append(cache, [key |-> key, value |-> value])
  IN IF Len(added) > CacheSize THEN Tail(added) ELSE added

\* ------------------------------------------------------------ the file system

\* Path.suffix of a file name: from its last dot on, "" without one (a
\* leading dot does not start a suffix).
RECURSIVE LastDot(_, _)
LastDot(name, i) ==
  IF i < 1 THEN 0 ELSE IF Char(name, i) = "." THEN i ELSE LastDot(name, i - 1)

Suffix(name) ==
  LET k == LastDot(name, Len(name))
  IN IF k > 1 /\ k < Len(name) THEN Slice(name, k, Len(name)) ELSE ""

\* subtitles_root_folder / f"{episode_number:02d}"
EpisodeFolder(episode_number) == "subtitles/" \o Pad2(episode_number)

\* What is at a path that no entry of the disk names.
Missing == [kind |-> "missing", entries |-> <<>>]

VARIABLES
  disk,                \* folder path -> [kind, entries]: the subtitle folders
  content,             \* file path -> the lines of the file
  ass_cache,           \* the lru_cache of parse_ass_file
  srt_cache,           \* the lru_cache of parse_srt_file
  pc,                  \* where get_subtitle_for_frame is: idle, loop, done
  args,                \* the arguments of the call in progress
  subtitle_files,      \* the files of the for loop not yet visited
  formatted_messages,  \* the local of that name
  outcome,             \* how the call ended: [kind, value]
  last,                \* history: what the last loop iteration did
  fragments,           \* history: the non-empty captions of this call, in order
  parsed,              \* history: path -> the Timeline of its latest parse
  codec,               \* the timestamp codec: the last conversion made
  sanitizer,           \* remove_tags: the message and what the calls returned
  scanner,             \* the while loop of parse_srt_file: lines and locals
  poster               \* main: the configuration file, the run, the posts made

vars == <<disk, content, ass_cache, srt_cache, pc, args, subtitle_files,
          formatted_messages, outcome, last, fragments, parsed, codec,
          sanitizer, scanner, poster>>

\* An argument: an int, or a value of another type (a str, a float) that
\* shows the same number.
IntArg(n) == [int |-> TRUE, val |-> n]

OtherArg(n) == [int |-> FALSE, val |-> n]

NoArgs == [frame_number |-> IntArg(0), episode_number |-> IntArg(0), num |-> 1, den |-> 1]

NoOutcome == [kind |-> "pending", value |-> ""]

NoTimeline == [file_name |-> "", language |-> "", subtitles |-> <<>>]

NoLast ==
  [path |-> "", suffix |-> "", hit |-> FALSE, read |-> FALSE, lines |-> <<>>,
   parse_raised |-> FALSE, timeline |-> NoTimeline, format_raised |-> FALSE,
   message |-> NoneStr]

\* The folder of an episode as the disk has it.
Folder(episode_number) ==
  IF EpisodeFolder(episode_number) \in DOMAIN disk
    THEN disk[EpisodeFolder(episode_number)]
    ELSE Missing

\* [f for f in episode_subtitles_folder.iterdir() if f.is_file()], as paths,
\* in the order the directory lists them.
RECURSIVE FilesOf(_, _)
FilesOf(folder_path, entries) ==
  IF entries = <<>> THEN <<>>
  ELSE (IF Head(entries).is_file
          THEN <<folder_path \o "/" \o Head(entries).name>> ELSE <<>>)
       \o FilesOf(folder_path, Tail(entries))

\* Path.name
RECURSIVE LastSlash(_, _)
LastSlash(path, i) ==
  IF i < 1 THEN 0 ELSE IF Char(path, i) = "/" THEN i ELSE LastSlash(path, i - 1)

FileName(path) == Slice(path, LastSlash(path, Len(path)) + 1, Len(path))

\* ------------------------------------------------------ get_subtitle_for_frame

\* A head of get_subtitle_for_frame that lets every argument through.
AnyArguments(frame_number, episode_number) == TRUE

\* The check of the argument types at the head of get_subtitle_for_frame.
ArgumentsAreIntegers(frame_number, episode_number) ==
  frame_number.int /\ episode_number.int

\* get_subtitle_for_frame up to its for loop: the argument and folder checks,
\* each of which returns None, and the listing of the files.
Call(frame_number, episode_number, num, den) ==
  /\ pc = "idle"
  /\ args' = [frame_number |-> frame_number, episode_number |-> episode_number,
              num |-> num, den |-> den]
  /\ last' = NoLast
  /\ fragments' = <<>>
  /\ formatted_messages' = ""
  /\ LET folder == Folder(episode_number.val)
         files == FilesOf(EpisodeFolder(episode_number.val), folder.entries)
     IN IF ~ArgumentsAreIntegers(frame_number, episode_number)
             \/ folder.kind # "dir" \/ files = <<>>
          THEN /\ pc' = "done"
               /\ outcome' = [kind |-> "none", value |-> NoneStr]
               /\ subtitle_files' = <<>>
          ELSE /\ pc' = "loop"
               /\ outcome' = NoOutcome
               /\ subtitle_files' = files
  /\ UNCHANGED <<disk, content, ass_cache, srt_cache, parsed, codec,
                 sanitizer, scanner, poster>>

\* A call of a memoized parser on a path: [hit, cache, result].  On a hit the
\* parser does not run and the stored value is the result; on a miss computed,
\* what the parser gives, is the result, and it is stored unless it is an
\* exception.
CachedParse(cache, path, computed) ==
  IF CacheHit(cache, path)
    THEN [hit |-> TRUE, cache |-> CacheTouch(cache, path),
          result |-> Returned(CacheValue(cache, path))]
  ELSE IF computed.raised
    THEN [hit |-> FALSE, cache |-> cache, result |-> computed]
  ELSE [hit |-> FALSE, cache |-> CacheInsert(cache, path, computed.value),
        result |-> computed]

\* An iteration that puts the message of the file before the earlier ones.
AggregateFront(messages, formatted_message) ==
  IF formatted_message # NoneStr /\ formatted_message # ""
    THEN formatted_message \o "\n\n" \o messages
    ELSE messages

\* formatted_messages after one iteration of the for loop.
Aggregate(messages, formatted_message) ==
  IF formatted_message # NoneStr /\ formatted_message # ""
    THEN messages \o formatted_message \o "\n\n"
    ELSE messages

\* A return of formatted_messages as it is, the empty string included.
ResultStr(messages) == [kind |-> "str", value |-> messages]

\* formatted_messages or None
Result(messages) ==
  IF messages # "" THEN [kind |-> "str", value |-> messages]
  ELSE [kind |-> "none", value |-> NoneStr]

\* The parse of one file in the for loop of get_subtitle_for_frame: the
\* dispatch on the suffix and the memoized parser of that suffix, on its own
\* cache.  [hit, cache, result]; a file of another suffix is passed over.
Parse(path, lines, acache, scache, detected) ==
  IF Suffix(FileName(path)) = ".ass"
    THEN CachedParse(acache, path, parse_ass_file(FileName(path), lines, detected))
  ELSE IF Suffix(FileName(path)) = ".srt"
    THEN CachedParse(scache, path, parse_srt_file(FileName(path), lines, detected))
  ELSE [hit |-> FALSE, cache |-> <<>>, result |-> Returned(NoTimeline)]

\* The formatting of one parsed file in the for loop: __ass_format or
\* __srt_format by the suffix; None for a file that was passed over.
Format(path, frame_number, num, den, timeline, fuzz) ==
  IF Suffix(FileName(path)) = ".ass"
    THEN ass_format(frame_number, num, den, timeline, fuzz)
  ELSE IF Suffix(FileName(path)) = ".srt"
    THEN srt_format(frame_number, num, den, timeline, fuzz)
  ELSE Returned(NoneStr)

\* One iteration of the for loop of get_subtitle_for_frame, on the next file;
\* after the last file, the return.  An exception of a parser or of a
\* formatter leaves get_subtitle_for_frame.
ProcessFile(detected, fuzz) ==
  /\ pc = "loop"
  /\ subtitle_files # <<>>
  /\ \E path \in {Head(subtitle_files)} :
     \E suffix \in {Suffix(FileName(path))} :
     \E known \in {suffix \in {".ass", ".srt"}} :
     \E p \in {Parse(path, content[path], ass_cache, srt_cache, detected)} :
     \E message \in {IF p.result.raised THEN Raised
                     ELSE Format(path, args.frame_number.val, args.num, args.den,
                                 p.result.value, fuzz)} :
     \E messages \in {IF message.raised THEN formatted_messages
                      ELSE Aggregate(formatted_messages, message.value)} :
        /\ ass_cache' = IF suffix = ".ass" THEN p.cache ELSE ass_cache
        /\ srt_cache' = IF suffix = ".srt" THEN p.cache ELSE srt_cache
        /\ last' = [path |-> path, suffix |-> suffix, hit |-> p.hit,
                    read |-> known /\ ~p.hit,
                    lines |-> IF known /\ ~p.hit THEN content[path] ELSE <<>>,
                    parse_raised |-> p.result.raised,
                    timeline |-> IF p.result.raised THEN NoTimeline ELSE p.result.value,
                    format_raised |-> ~p.result.raised /\ message.raised,
                    message |-> IF message.raised THEN NoneStr ELSE message.value]
        /\ parsed' = IF known /\ ~p.hit /\ ~p.result.raised
                       THEN (path :> p.result.value) @@ parsed
                       ELSE parsed
        /\ IF message.raised
             THEN /\ pc' = "done"
                  /\ outcome' = [kind |-> "raised", value |-> NoneStr]
                  /\ UNCHANGED <<subtitle_files, formatted_messages, fragments>>
             ELSE /\ formatted_messages' = messages
                  /\ fragments' = IF message.value \notin {NoneStr, ""}
                                    THEN Append(fragments,
                                                [path |-> path, text |-> message.value])
                                    ELSE fragments
                  /\ subtitle_files' = Tail(subtitle_files)
                  /\ IF Tail(subtitle_files) = <<>>
                       THEN pc' = "done" /\ outcome' = Result(messages)
                       ELSE pc' = "loop" /\ outcome' = NoOutcome
  /\ UNCHANGED <<disk, content, args, codec, sanitizer, scanner, poster>>

\* The caller has the result (or the exception); the next call can start.
Finish ==
  /\ pc = "done"
  /\ pc' = "idle"
  /\ args' = NoArgs
  /\ outcome' = NoOutcome
  /\ last' = NoLast
  /\ fragments' = <<>>
  /\ formatted_messages' = ""
  /\ subtitle_files' = <<>>
  /\ UNCHANGED <<disk, content, ass_cache, srt_cache, parsed, codec,
                 sanitizer, scanner, poster>>

\* A subtitle file is rewritten between two calls.
WriteFile(path, lines) ==
  /\ pc = "idle"
  /\ path \in DOMAIN content
  /\ content[path] # lines
  /\ content' = [content EXCEPT ![path] = lines]
  /\ UNCHANGED <<disk, ass_cache, srt_cache, pc, args, subtitle_files,
                 formatted_messages, outcome, last, fragments, parsed, codec,
                 sanitizer, scanner, poster>>

\* ------------------------------------------------------------ the codec alone

NoCodec == [stage |-> "idle", frame |-> 0, num |-> 1, den |-> 1,
            timestamp |-> NoneStr, back |-> NoneFrame]

\* Every variable but the codec.
subtitle_state == <<disk, content, ass_cache, srt_cache, pc, args, subtitle_files,
                    formatted_messages, outcome, last, fragments, parsed,
                    sanitizer, scanner, poster>>

\* frame_to_timestamp on a frame number and a frame rate.
FrameToTimestamp(frame, num, den, fuzz) ==
  /\ codec.stage = "idle"
  /\ codec' = [stage |-> "timestamp", frame |-> frame, num |-> num, den |-> den,
               timestamp |-> frame_to_timestamp(frame, num, den, fuzz),
               back |-> NoneFrame]
  /\ UNCHANGED subtitle_state

\* timestamp_to_frame on the text frame_to_timestamp gave, at the same rate.
TimestampToFrame(fuzz) ==
  /\ codec.stage = "timestamp"
  /\ codec.timestamp # NoneStr
  /\ codec.num > 0
  /\ codec' = [codec EXCEPT !.stage = "frame",
                            !.back = timestamp_to_frame(codec.timestamp, codec.num,
                                                        codec.den, fuzz)]
  /\ UNCHANGED subtitle_state

\* timestamp_to_frame on a text, at a frame rate above 0.
ParseTimestamp(timestamp, num, den, fuzz) ==
  /\ codec.stage = "idle"
  /\ codec' = [stage |-> "text", frame |-> NoneFrame, num |-> num, den |-> den,
               timestamp |-> timestamp,
               back |-> timestamp_to_frame(timestamp, num, den, fuzz)]
  /\ UNCHANGED subtitle_state

\* The next conversion starts.
CodecReset ==
  /\ codec.stage # "idle"
  /\ codec' = NoCodec
  /\ UNCHANGED subtitle_state

\* -------------------------------------------------------- the sanitizer alone

NoSanitizer == [stage |-> "idle", message |-> "", once |-> "", twice |-> ""]

sanitizer_rest == <<disk, content, ass_cache, srt_cache, pc, args, subtitle_files,
                    formatted_messages, outcome, last, fragments, parsed, codec,
                    scanner, poster>>

\* remove_tags on a message.
Sanitize(message) ==
  /\ sanitizer.stage = "idle"
  /\ sanitizer' = [stage |-> "once", message |-> message,
                   once |-> remove_tags(message), twice |-> ""]
  /\ UNCHANGED sanitizer_rest

\* remove_tags on what remove_tags returned.
SanitizeAgain ==
  /\ sanitizer.stage = "once"
  /\ sanitizer' = [sanitizer EXCEPT !.stage = "twice",
                                    !.twice = remove_tags(sanitizer.once)]
  /\ UNCHANGED sanitizer_rest

\* ---------------------------------------------------------- the scanner alone

NoScanner == [stage |-> "idle", lines |-> <<>>, st |-> SrtStart]

scanner_rest == <<disk, content, ass_cache, srt_cache, pc, args, subtitle_files,
                  formatted_messages, outcome, last, fragments, parsed, codec,
                  sanitizer, poster>>

\* parse_srt_file up to the while statement: the lines are read, i = 0.
StartScan(lines) ==
  /\ scanner.stage = "idle"
  /\ scanner' = [stage |-> "scan", lines |-> RStripLines(lines), st |-> SrtStart]
  /\ UNCHANGED scanner_rest

\* One iteration of the outer while loop.
ScanStep ==
  /\ scanner.stage = "scan"
  /\ scanner.st.i <= Len(scanner.lines)
  /\ \E j \in {IndexEnd(scanner.lines, scanner.st.i)} :
     \E groups \in {GroupsAt(scanner.lines, j)} :
     \E k \in {TextEnd(scanner.lines, j + 1)} :
       scanner' = [scanner EXCEPT
                     !.st = SrtBlock(scanner.lines, scanner.st, j, groups, k)]
  /\ UNCHANGED scanner_rest

\* The while condition fails: parse_srt_file goes on to the language and
\* returns.
ScanDone ==
  /\ scanner.stage = "scan"
  /\ scanner.st.i > Len(scanner.lines)
  /\ scanner' = [scanner EXCEPT !.stage = "done"]
  /\ UNCHANGED scanner_rest

\* ------------------------------------------------------------ the posting loop

\* The configuration file holds in_progress (episode, frame) and posting.fph;
\* CURRENT_EPISODE, MAX_FRAMES, LAST_FRAME and frame_number are the locals of
\* main; posts, run_posts, start and ended are history: the frames posted so
\* far, how many of them by the run in progress, in_progress as it was at
\* first, and how the last run ended.
NoPoster ==
  [stage |-> "idle", in_progress |-> [episode |-> 1, frame |-> 0], fph |-> 0,
   CURRENT_EPISODE |-> 1, MAX_FRAMES |-> 0, LAST_FRAME |-> 0, frame_number |-> 0,
   posts |-> <<>>, run_posts |-> 0, start |-> [episode |-> 1, frame |-> 0],
   ended |-> "none"]

poster_rest == <<disk, content, ass_cache, srt_cache, pc, args, subtitle_files,
                 formatted_messages, outcome, last, fragments, parsed, codec,
                 sanitizer, scanner>>

\* EPISODES.get(episode, {}).get("max_frames", 0) of a configured episode.
MaxFramesOf(EPISODES, episode) == EPISODES[episode].max_frames

\* save_configs(CONFIGS): the file holds what CONFIGS holds.
SaveConfigs(in_progress) == in_progress

\* in_progress after a post that left the record of progress as it was.
Unrecorded(in_progress, episode, frame_number) == in_progress

\* IN_PROGRESS["episode"] = CURRENT_EPISODE; IN_PROGRESS["frame"] = frame_number
Progress(in_progress, episode, frame_number) ==
  [in_progress EXCEPT !.episode = episode, !.frame = frame_number]

\* main() up to the for statement: the configuration is read; the run returns
\* at once when the episode in progress is not configured.
Main(EPISODES) ==
  /\ poster.stage = "idle"
  /\ IF poster.in_progress.episode \notin DOMAIN EPISODES
       THEN poster' = [poster EXCEPT !.ended = "unconfigured", !.run_posts = 0]
       ELSE poster' =
              [poster EXCEPT
                 !.stage = "loop",
                 !.CURRENT_EPISODE = poster.in_progress.episode,
                 !.MAX_FRAMES = MaxFramesOf(EPISODES, poster.in_progress.episode),
                 !.LAST_FRAME = poster.in_progress.frame + poster.fph,
                 !.frame_number = poster.in_progress.frame + 1,
                 !.run_posts = 0,
                 !.ended = "none"]
  /\ UNCHANGED poster_rest

\* One iteration of the for loop.  frame_path, message and post_id tell
\* whether get_frame, format_message and post_frame gave something;
\* subtitles_raised whether get_subtitle_for_frame raised; rest_raised whether
\* a call after save_configs raised.  A break and an exception both end the
\* run.
Iterate(frame_path, subtitles_raised, message, post_id, rest_raised) ==
  /\ poster.stage = "loop"
  /\ poster.frame_number <= poster.LAST_FRAME
  /\ IF poster.frame_number > poster.MAX_FRAMES
       THEN poster' =
              [poster EXCEPT
                 !.stage = "idle",
                 !.CURRENT_EPISODE = poster.CURRENT_EPISODE + 1,
                 !.in_progress =
                    SaveConfigs(Progress(poster.in_progress,
                                         poster.CURRENT_EPISODE + 1, 0)),
                 !.ended = "episode"]
     ELSE IF ~frame_path
       THEN poster' = [poster EXCEPT !.stage = "idle", !.ended = "download"]
     ELSE IF subtitles_raised
       THEN poster' = [poster EXCEPT !.stage = "idle", !.ended = "subtitles"]
     ELSE IF ~message
       THEN poster' = [poster EXCEPT !.stage = "idle", !.ended = "message"]
     ELSE IF ~post_id
       THEN poster' = [poster EXCEPT !.stage = "idle", !.ended = "post"]
     ELSE poster' =
            [poster EXCEPT
               !.in_progress =
                  SaveConfigs(Progress(poster.in_progress, poster.CURRENT_EPISODE,
                                       poster.frame_number)),
               !.posts = Append(poster.posts,
                                [episode |-> poster.CURRENT_EPISODE,
                                 frame |-> poster.frame_number]),
               !.run_posts = poster.run_posts + 1,
               !.stage = IF rest_raised THEN "idle" ELSE "loop",
               !.ended = IF rest_raised THEN "comments" ELSE "none",
               !.frame_number = IF rest_raised THEN poster.frame_number
                                ELSE poster.frame_number + 1]
  /\ UNCHANGED poster_rest

\* The range is exhausted: main() goes on after the loop and returns.
Return ==
  /\ poster.stage = "loop"
  /\ poster.frame_number > poster.LAST_FRAME
  /\ poster' = [poster EXCEPT !.stage = "idle", !.ended = "range"]
  /\ UNCHANGED poster_rest

\* ------------------------------------------------------------------- bounds

\* The frame numbers of the queries on a single file: 0..MaxFrame.
MaxFrame == 21

\* The number of lines of a line-delimited file.
MaxLines == 2

\* The frame numbers of the queries on the folders: -1..MaxQueryFrame.
MaxQueryFrame == 5

\* The frame numbers and the integer frame rates of the codec.
MaxCodecFrame == 160

MaxFps == 301

\* How many frames before a whole second, minute or hour the codec is asked
\* about: 0..MaxBack.
MaxBack == 6

\* The frames of an episode, and the frames a run may post.
MaxEpisodeFrames == 4

MaxFph == 3

\* The number of lines of a block-delimited file under the scanner.
MaxScanLines == 3

\* The number of pieces a message is put together from.
MaxPieces == 4

\* ------------------------------------------------------------------- inputs

\* What the language detector can answer on a text with letters.
DetectOutcomes == {"en", "error"}

\* How a comparison of two doubles that are exactly equal can come out.
Fuzz == {-1, 0, 1}

\* Frame rates as <<num, den>>: 2, the default 3.5, 12.5 and 0.
Rates == {<<2, 1>>, <<7, 2>>, <<25, 2>>, <<0, 1>>}

PlainLine == "Dialogue: 0,0:00:00.00,0:00:02.00,Default,,0,0,0,,Hello, {\\i1}world\n"

SignLine == "Dialogue: 0,0:00:01.00,0:00:03.00,Signs,,0,0,0,,{\\an8}Shop\n"

SongLine == "Dialogue: 0,0:00:01.00,0:00:03.00,Opening Song,,0,0,0,,la\\Nla\n"

SongSignLine == "Dialogue: 0,0:00:02.00,0:00:04.00,OP,Sign,0,0,0,,Both\n"

FloatLine == "Dialogue: 0,0:00:01.68,0:00:03.00,Default,,0,0,0,,Late\n"

ShortLine == "Dialogue: 0,0:00:00.00,0:00:02.00,Default\n"

BadStartLine == "Dialogue: 0,0:00:xx.00,0:00:02.00,Default,,0,0,0,,Bad\n"

BadEndLine == "Dialogue: 0,0:00:00.00,2.00,Default,,0,0,0,,Bad\n"

HeaderLine == "[Events]\n"

AssLines ==
  {PlainLine, SignLine, SongLine, SongSignLine, FloatLine, ShortLine,
   BadStartLine, BadEndLine, HeaderLine}

\* The line-delimited files of at most MaxLines lines.
AssFiles == UNION {[1..n -> AssLines] : n \in 0..MaxLines}

SrtOneBlock == <<"1\n", "00:00:01,000 --> 00:00:03,500\n", "Hello\n", "world\n">>

SrtTwoBlocks ==
  <<"1\n", "00:00:00,000 --> 00:00:01,000\n", "{\\i1}One\n", "\n",
    "2\n", "00:00:01,500-->00:00:02,000\n", "Two\n", "\n">>

SrtNoIndex == <<"00:00:00,000 --> 00:00:02,000\n", "Plain\n">>

SrtBadTime == <<"1\n", "00:00:01.000 --> 00:00:03.000\n", "Dots\n", "\n">>

SrtNoText == <<"1\n", "00:00:00,000 --> 00:00:02,000\n", "\n", "7\n">>

SrtFiles == {SrtOneBlock, SrtTwoBlocks, SrtNoIndex, SrtBadTime, SrtNoText, <<>>}

\* ----------------------------------------------------------- specifications

InitWith(d, c) ==
  /\ disk = d
  /\ content = c
  /\ ass_cache = <<>>
  /\ srt_cache = <<>>
  /\ pc = "idle"
  /\ args = NoArgs
  /\ subtitle_files = <<>>
  /\ formatted_messages = ""
  /\ outcome = NoOutcome
  /\ last = NoLast
  /\ fragments = <<>>
  /\ parsed = <<>>
  /\ codec = NoCodec
  /\ sanitizer = NoSanitizer
  /\ scanner = NoScanner
  /\ poster = NoPoster

File(name) == [name |-> name, is_file |-> TRUE]

SubFolder(name) == [name |-> name, is_file |-> FALSE]

Dir(entries) == [kind |-> "dir", entries |-> entries]

\* The folders: episode 1 has two line-delimited files, a block-delimited
\* one, a file of another type and a subfolder; episode 2 has an empty
\* folder, episode 3 a folder that holds only a subfolder; at the place of
\* the folder of episode 4 there is a regular file; no other episode has a
\* folder.
Folders ==
  ("subtitles/01" :> Dir(<<File("a.ass"), SubFolder("old"), File("b.srt"),
                           File("c.txt"), File("d.ass")>>))
  @@ ("subtitles/02" :> Dir(<<>>))
  @@ ("subtitles/03" :> Dir(<<SubFolder("old")>>))
  @@ ("subtitles/04" :> [kind |-> "file", entries |-> <<>>])

\* What the files of episode 1 can hold.
FolderFiles ==
  ("subtitles/01/a.ass" :> {<<HeaderLine, PlainLine>>, <<SongLine>>,
                            <<PlainLine, ShortLine>>, <<BadStartLine, PlainLine>>})
  @@ ("subtitles/01/b.srt" :> {SrtOneBlock})
  @@ ("subtitles/01/c.txt" :> {<<"notes\n">>})
  @@ ("subtitles/01/d.ass" :> {<<SignLine>>, <<>>})

Init ==
  InitWith(Folders,
           [path \in DOMAIN FolderFiles |->
              CHOOSE lines \in FolderFiles[path] : \A other \in FolderFiles[path] :
                Len(lines) >= Len(other)])

QueryFrames == {IntArg(n) : n \in -1..MaxQueryFrame} \cup {OtherArg(0)}

QueryEpisodes == {IntArg(n) : n \in -1..5} \cup {OtherArg(1)}

Next ==
  \/ /\ pc = "idle"
     /\ \E frame_number \in QueryFrames, episode_number \in QueryEpisodes,
           rate \in {<<2, 1>>, <<0, 1>>} :
          Call(frame_number, episode_number, rate[1], rate[2])
  \/ /\ pc = "loop"
     /\ \E detected \in DetectOutcomes, fuzz \in Fuzz : ProcessFile(detected, fuzz)
  \/ Finish
  \/ /\ pc = "idle"
     /\ \E path \in DOMAIN FolderFiles : \E lines \in FolderFiles[path] :
          WriteFile(path, lines)

\* get_subtitle_for_frame over the folders of the episodes.
Spec == Init /\ [][Next]_vars

\* One file in the folder of episode 1: any line-delimited file of at most
\* MaxLines lines, or one of the block-delimited files.
InitFile ==
  \/ \E lines \in AssFiles :
       InitWith("subtitles/01" :> Dir(<<File("a.ass")>>), "subtitles/01/a.ass" :> lines)
  \/ \E lines \in SrtFiles :
       InitWith("subtitles/01" :> Dir(<<File("b.srt")>>), "subtitles/01/b.srt" :> lines)

NextFile ==
  \/ /\ pc = "idle"
     /\ \E n \in 0..MaxFrame, rate \in Rates :
          Call(IntArg(n), IntArg(1), rate[1], rate[2])
  \/ /\ pc = "loop"
     /\ \E detected \in DetectOutcomes, fuzz \in Fuzz : ProcessFile(detected, fuzz)
  \/ Finish

\* get_subtitle_for_frame over one file.
SpecFile == InitFile /\ [][NextFile]_vars

NextCaption ==
  \/ /\ pc = "idle"
     /\ \E n \in 0..MaxQueryFrame : Call(IntArg(n), IntArg(1), 2, 1)
  \/ /\ pc = "loop"
     /\ \E detected \in DetectOutcomes, fuzz \in Fuzz : ProcessFile(detected, fuzz)
  \/ Finish

\* get_subtitle_for_frame over one file, at 2 frames per second.
SpecCaption == InitFile /\ [][NextCaption]_vars

ReversedLine == "Dialogue: 0,0:00:03.00,0:00:01.00,Default,,0,0,0,,Back\n"

EmptyPlainLine == "Dialogue: 0,0:00:00.00,0:00:02.00,Default,,0,0,0,,{\\an8}\n"

EmptySignLine == "Dialogue: 0,0:00:00.00,0:00:02.00,Signs,,0,0,0,,{\\an8}\n"

EmptySongLine == "Dialogue: 0,0:00:01.00,0:00:02.00,Default,Ending,0,0,0,,{\\an8}\n"

\* Lines of cues that end before they start, or whose text is only markup.
EdgeLines == {PlainLine, ReversedLine, EmptyPlainLine, EmptySignLine, EmptySongLine}

EdgeFiles == UNION {[1..n -> EdgeLines] : n \in 0..MaxLines}

InitEdge ==
  \E lines \in EdgeFiles :
    InitWith("subtitles/01" :> Dir(<<File("a.ass")>>), "subtitles/01/a.ass" :> lines)

\* get_subtitle_for_frame over one line-delimited file of such lines, at 2
\* frames per second.
SpecEdge == InitEdge /\ [][NextCaption]_vars

\* The name of the i-th file of the large folder.
ManyName(i) == "g" \o Pad2(i) \o ".ass"

\* Episode 1 has one file; episode 4 has one file more than a cache holds.
ManyFolders ==
  ("subtitles/01" :> Dir(<<File("a.ass")>>))
  @@ ("subtitles/04" :> Dir([i \in 1..(CacheSize + 1) |-> File(ManyName(i))]))

ManyFiles ==
  ("subtitles/01/a.ass" :> <<PlainLine>>)
  @@ [path \in {"subtitles/04/" \o ManyName(i) : i \in 1..(CacheSize + 1)} |->
        <<HeaderLine>>]

InitCache == InitWith(ManyFolders, ManyFiles)

NextCache ==
  \/ \E episode_number \in {1, 4} : Call(IntArg(0), IntArg(episode_number), 2, 1)
  \/ /\ pc = "loop"
     /\ \E detected \in DetectOutcomes, fuzz \in Fuzz : ProcessFile(detected, fuzz)
  \/ Finish
  \/ \E lines \in {<<PlainLine>>, <<SongLine>>} : WriteFile("subtitles/01/a.ass", lines)

\* get_subtitle_for_frame over more files than a cache holds.
SpecCache == InitCache /\ [][NextCache]_vars

\* The frame rates of the codec: the integers up to MaxFps, 3.5 and 12.5.
CodecRates == {<<n, 1>> : n \in 1..MaxFps} \cup {<<7, 2>>, <<25, 2>>}

InitCodec == InitWith(<<>>, <<>>)

NextCodec ==
  \/ /\ codec.stage = "idle"
     /\ \E frame \in 0..MaxCodecFrame, rate \in CodecRates, fuzz \in BOOLEAN :
          FrameToTimestamp(frame, rate[1], rate[2], fuzz)
  \/ \E fuzz \in BOOLEAN : TimestampToFrame(fuzz)
  \/ CodecReset

\* frame_to_timestamp and timestamp_to_frame in turn.
SpecCodec == InitCodec /\ [][NextCodec]_vars

\* Frame rates high enough for the centiseconds to round up to 100.
CarryRates == {<<200, 1>>, <<250, 1>>, <<300, 1>>, <<1000, 1>>}

\* Frame rates that are not above 0: 0, -2, -3.5 and -300.
SignedRates == {<<0, 1>>, <<-2, 1>>, <<-7, 2>>, <<-300, 1>>}

\* The first second, the first minute and the first hour.
CarrySeconds == {1, 60, 3600}

NextCarry ==
  \/ /\ codec.stage = "idle"
     /\ \E rate \in CarryRates, whole \in CarrySeconds, back \in 0..MaxBack,
           fuzz \in BOOLEAN :
          FrameToTimestamp(whole * rate[1] - back, rate[1], rate[2], fuzz)
  \/ /\ codec.stage = "idle"
     /\ \E rate \in SignedRates, frame \in 0..MaxBack, fuzz \in BOOLEAN :
          FrameToTimestamp(frame, rate[1], rate[2], fuzz)
  \/ \E fuzz \in BOOLEAN : TimestampToFrame(fuzz)
  \/ CodecReset

\* The lines of a block-delimited file: blank, of blanks, an index, a time
\* range, a time range the pattern does not match, text.
ScanLines ==
  {"\n", "  \n", "1\n", "00:00:01,000 --> 00:00:02,000\n",
   "00:00:01.000 --> 00:00:02.000\n", "Hello\n"}

ScanFiles == UNION {[1..n -> ScanLines] : n \in 0..MaxScanLines}

InitScan == InitWith(<<>>, <<>>)

NextScan ==
  \/ /\ scanner.stage = "idle"
     /\ \E lines \in ScanFiles : StartScan(lines)
  \/ ScanStep
  \/ ScanDone

\* The block scanner of parse_srt_file, one iteration at a time.
SpecScan == InitScan /\ [][NextScan]_vars

\* The same; the interpreter goes on with the loop as long as it can.
SpecScanFair == SpecScan /\ WF_vars(ScanStep) /\ WF_vars(ScanDone)

\* Two episodes are configured; the second is one frame shorter.
Episodes ==
  (1 :> [max_frames |-> MaxEpisodeFrames])
  @@ (2 :> [max_frames |-> MaxEpisodeFrames - 1])

\* The configuration file before the first run: episode 1 in progress, at any
\* of its frames, and any number of frames per run.
InitPoster ==
  /\ disk = <<>>
  /\ content = <<>>
  /\ ass_cache = <<>>
  /\ srt_cache = <<>>
  /\ pc = "idle"
  /\ args = NoArgs
  /\ subtitle_files = <<>>
  /\ formatted_messages = ""
  /\ outcome = NoOutcome
  /\ last = NoLast
  /\ fragments = <<>>
  /\ parsed = <<>>
  /\ codec = NoCodec
  /\ sanitizer = NoSanitizer
  /\ scanner = NoScanner
  /\ \E frame \in 0..MaxEpisodeFrames, fph \in 0..MaxFph :
       poster = [NoPoster EXCEPT !.in_progress = [episode |-> 1, frame |-> frame],
                                 !.start = [episode |-> 1, frame |-> frame],
                                 !.fph = fph]

NextPoster ==
  \/ Main(Episodes)
  \/ \E frame_path \in BOOLEAN, subtitles_raised \in BOOLEAN, message \in BOOLEAN,
        post_id \in BOOLEAN, rest_raised \in BOOLEAN :
       Iterate(frame_path, subtitles_raised, message, post_id, rest_raised)
  \/ Return

\* The runs of main(), one after the other.
SpecPoster == InitPoster /\ [][NextPoster]_vars

\* Timestamp texts H:MM:SS.CC, and the same with one digit after the dot.
Texts ==
  {"0:" \o minutes \o ":" \o seconds \o "." \o fraction :
     minutes \in {"00", "01"}, seconds \in {"00", "01", "59"},
     fraction \in {"0", "5", "7", "05", "50", "99"}}

\* Frame rates above 0: 2, the default 3.5, 12.5 and 24.
TextRates == {<<2, 1>>, <<7, 2>>, <<25, 2>>, <<24, 1>>}

NextText ==
  \/ /\ codec.stage = "idle"
     /\ \E timestamp \in Texts, rate \in TextRates, fuzz \in BOOLEAN :
          ParseTimestamp(timestamp, rate[1], rate[2], fuzz)
  \/ CodecReset

\* timestamp_to_frame on timestamp texts.
SpecText == InitCodec /\ [][NextText]_vars

\* The pieces of a message: the characters of the markup, a letter, a digit,
\* white space, an override block and a colour override.
Pieces == {"{", "}", "\\", "N", "a", "1", " ", "\n", "{\\i1}", "\\c&H0F&"}

RECURSIVE Concat(_)
Concat(pieces) == IF pieces = <<>> THEN "" ELSE Head(pieces) \o Concat(Tail(pieces))

\* The messages of at most MaxPieces pieces.
Messages == {Concat(pieces) : pieces \in UNION {[1..n -> Pieces] : n \in 0..MaxPieces}}

InitSanitize == InitWith(<<>>, <<>>)

NextSanitize ==
  \/ /\ sanitizer.stage = "idle"
     /\ \E message \in Messages : Sanitize(message)
  \/ SanitizeAgain

\* remove_tags, and remove_tags on its result.
SpecSanitize == InitSanitize /\ [][NextSanitize]_vars

\* frame_to_timestamp just before a whole second, minute or hour, and at frame
\* rates of either sign.
SpecCarry == InitCodec /\ [][NextCarry]_vars

\* ------------------------------------------------------------------ claims

\* The call in progress has non-negative integer arguments and a frame rate
\* above 0.
IntegerCall ==
  /\ args.frame_number.int /\ args.episode_number.int
  /\ args.frame_number.val >= 0 /\ args.episode_number.val >= 0 /\ args.num > 0

\* C1: get_subtitle_for_frame called with integer frame_number and
\* episode_number never raises, whatever the subtitle files hold: every call
\* ends with a string or with None.
C1_NeverRaises ==
  (pc = "done" /\ IntegerCall) => outcome.kind \in {"str", "none"}

\* The Dialogue lines of a file that split into at least 10 fields and whose
\* start and end timestamps parse.
WellFormedDialogues(lines) ==
  SelectSeq(Dialogues(lines),
            LAMBDA line : /\ Len(Parts(line)) >= 10
                          /\ timestamp_to_seconds(Parts(line)[2]) # NoneSeconds
                          /\ timestamp_to_seconds(Parts(line)[3]) # NoneSeconds)

\* C2: the parse of a line-delimited file gives a Timeline whose cues are
\* exactly those of its well-formed Dialogue lines, in source order: a line
\* of fewer than 10 fields, or with a start or end that does not parse, is
\* skipped and the parse goes on.
C2_MalformedLinesSkipped ==
  (last.read /\ last.suffix = ".ass") =>
     /\ ~last.parse_raised
     /\ last.timeline.subtitles =
          [i \in 1..Len(WellFormedDialogues(last.lines)) |->
             AssEntry(Parts(WellFormedDialogues(last.lines)[i]))]

\* An argument that is not a non-negative integer.
NotNonNegativeInteger(arg) == ~arg.int \/ arg.val < 0

\* C3: get_subtitle_for_frame returns None, and does not raise, whenever
\* frame_number or episode_number is not an integer.
C3_NonIntegerGivesNone ==
  (pc = "done" /\ (~args.frame_number.int \/ ~args.episode_number.int)) =>
     outcome = [kind |-> "none", value |-> NoneStr]

\* C3 as the specification has it: the call ends in an error whenever
\* frame_number or episode_number is not a non-negative integer.
C3_InvalidArgumentError ==
  (pc = "done" /\ (NotNonNegativeInteger(args.frame_number)
                     \/ NotNonNegativeInteger(args.episode_number))) =>
     outcome.kind = "raised"

\* A call with a frame_number that is not an integer has returned None.
C3_Witness ==
  pc = "done" /\ ~args.frame_number.int /\ args.episode_number = IntArg(1)
     /\ outcome.kind = "none"

\* C4: a call that returns never returns the empty string: the result is None
\* when the arguments are not integers, when the folder of the episode is
\* missing, is not a directory or holds no file, and when no file gave a
\* non-empty caption; otherwise it is a non-empty string.
C4_NeverEmptyString ==
  (pc = "done" /\ outcome.kind # "raised") =>
     /\ outcome.value # ""
     /\ IF \/ ~args.frame_number.int \/ ~args.episode_number.int
           \/ Folder(args.episode_number.val).kind # "dir"
           \/ FilesOf(EpisodeFolder(args.episode_number.val),
                      Folder(args.episode_number.val).entries) = <<>>
           \/ fragments = <<>>
          THEN outcome = [kind |-> "none", value |-> NoneStr]
          ELSE outcome.kind = "str" /\ Len(outcome.value) > 0

\* A call has gone through the files of a folder, none of which gave a
\* caption, and has returned None.
C4_Witness ==
  pc = "done" /\ last.path # "" /\ ~last.parse_raised /\ ~last.format_raised
     /\ fragments = <<>> /\ outcome.kind = "none"

\* The cues of a Timeline whose closed interval [Start, End] holds the time
\* frame_number / (num/den), in exact arithmetic (times in centiseconds).
Containing(subtitles, frame_number, num, den) ==
  {i \in 1..Len(subtitles) :
     /\ subtitles[i].Start * num <= frame_number * den * 100
     /\ frame_number * den * 100 <= subtitles[i].End * num}

Min(S) == CHOOSE i \in S : \A j \in S : i <= j

\* The caption of cue sub of a file of the given suffix.
CaptionOf(suffix, language, sub) ==
  Caption(language,
          IF suffix = ".ass"
            THEN Classify(OrEmpty(sub.Style), OrEmpty(sub.Actor), sub.Text)
            ELSE sub.Text)

\* C5: on a Timeline whose cues all have a start and an end, the caption of a
\* file is that of the first cue in source order whose closed interval
\* [start, end] holds t = frame_number / fps, and there is no caption when no
\* cue holds t.
C5_FirstContainingCue ==
  (/\ last.suffix \in {".ass", ".srt"}
   /\ ~last.parse_raised
   /\ args.num > 0
   /\ \A i \in 1..Len(last.timeline.subtitles) :
        /\ last.timeline.subtitles[i].Start # NoneSeconds
        /\ last.timeline.subtitles[i].End # NoneSeconds) =>
     /\ ~last.format_raised
     /\ last.message =
          (IF Containing(last.timeline.subtitles, args.frame_number.val,
                         args.num, args.den) = {}
             THEN NoneStr
             ELSE CaptionOf(last.suffix, last.timeline.language,
                    last.timeline.subtitles[
                      Min(Containing(last.timeline.subtitles, args.frame_number.val,
                                     args.num, args.den))]))

\* The words of s from position i on, in lower case: the maximal runs of
\* letters, digits and underscores; word is the run in progress.
RECURSIVE WordsOf(_, _, _)
WordsOf(s, i, word) ==
  IF i > Len(s) THEN (IF word = "" THEN {} ELSE {word})
  ELSE IF Char(s, i) \in WordChars
    THEN WordsOf(s, i + 1, word \o LowerChar(Char(s, i)))
  ELSE (IF word = "" THEN {} ELSE {word}) \cup WordsOf(s, i + 1, "")

\* A style or speaker of a sign: it holds "sign", letter case ignored.
MatchesSign(s) == \E i \in 1..Len(s) : Lower(Slice(s, i, i + 3)) = "sign"

\* A style or speaker of a song: one of its words is a song word.
MatchesSong(s) ==
  WordsOf(s, 1, "") \cap
    {"lyric", "lyrics", "song", "songs", "opening", "ending", "op", "ed"} # {}

\* The text of a cue as a caption shows it.
Rendered(sub) ==
  IF MatchesSign(OrEmpty(sub.Style)) \/ MatchesSign(OrEmpty(sub.Actor))
    THEN SignOpen \o " " \o sub.Text \o " " \o SignClose
  ELSE IF MatchesSong(OrEmpty(sub.Style)) \/ MatchesSong(OrEmpty(sub.Actor))
    THEN Note \o " " \o sub.Text \o " " \o Note \o "\n"
  ELSE sub.Text

\* C6: the caption of a line-delimited file is "[language]", a line break and
\* the text of one of its cues: between the sign glyphs when the style or the
\* speaker of the cue matches the sign pattern, else between two notes and
\* with a line break after them when the style or the speaker has a song word,
\* else as it is; the sign test comes first.
C6_CaptionFormat ==
  (last.suffix = ".ass" /\ last.message # NoneStr) =>
     \E i \in 1..Len(last.timeline.subtitles) :
        last.message = "[" \o last.timeline.language \o "]\n"
                           \o Rendered(last.timeline.subtitles[i])

\* The caption of a cue that matches the sign pattern and the song pattern
\* has been given: it is a sign.
C6_Witness ==
  /\ last.suffix = ".ass"
  /\ \E i \in 1..Len(last.timeline.subtitles) :
       /\ MatchesSong(last.timeline.subtitles[i].Style)
       /\ MatchesSign(last.timeline.subtitles[i].Actor)
       /\ last.message = "[" \o last.timeline.language \o "]\n" \o SignOpen \o " "
                             \o last.timeline.subtitles[i].Text \o " " \o SignClose

\* The cues of the block-delimited files whose blocks are all well formed:
\* <<start, end, text>>, the times in centiseconds.
SrtExpected ==
  (SrtOneBlock :> << <<100, 350, "Hello world">> >>)
  @@ (SrtTwoBlocks :> << <<0, 100, "One">>, <<150, 200, "Two">> >>)
  @@ (SrtNoIndex :> << <<0, 200, "Plain">> >>)

\* C7: a well-formed block of a block-delimited file gives one cue, whose start
\* and end are H*3600 + M*60 + S + mmm/1000 seconds and whose text is the text
\* lines of the block joined with one space and sanitized.
C7_SrtBlockGivesCue ==
  (last.read /\ last.suffix = ".srt" /\ last.lines \in DOMAIN SrtExpected) =>
     /\ ~last.parse_raised
     /\ last.timeline.subtitles =
          [i \in 1..Len(SrtExpected[last.lines]) |->
             SrtEntry(SrtExpected[last.lines][i][1], SrtExpected[last.lines][i][2],
                      SrtExpected[last.lines][i][3])]

\* Whether the cache of the parser of a path holds the path.
InCache(path) ==
  \/ Suffix(FileName(path)) = ".ass" /\ path \in CacheKeys(ass_cache)
  \/ Suffix(FileName(path)) = ".srt" /\ path \in CacheKeys(srt_cache)

\* The next iteration neither reads nor parses its file and has the Timeline
\* of the latest parse of it.
AnsweredFromCache ==
  /\ ~last'.read
  /\ ~last'.parse_raised
  /\ last'.timeline = parsed[Head(subtitle_files)]

\* C8: a query on a path that one of the 32 entries of the cache of its parser
\* holds does not read or parse the file again: it gets the Timeline of the
\* latest parse of the path, also when the file has changed since.
C8_NoReparseWhileCached ==
  [][(pc = "loop" /\ InCache(Head(subtitle_files))) => AnsweredFromCache]_vars

\* C8 as the specification has it: once a path has been parsed, no later query
\* reads or parses it again, over any number of files.
C8_NeverReparsed ==
  [][(pc = "loop" /\ Head(subtitle_files) \in DOMAIN parsed) => AnsweredFromCache]_vars

\* A query has been answered from the cache with a Timeline that the file, as
\* it is now, does not give.
C8_Witness ==
  /\ last.hit
  /\ last.path = "subtitles/01/a.ass"
  /\ last.timeline.subtitles # AssEntries(Dialogues(content[last.path]))

\* The fragments, each followed by the two line breaks of the loop.
RECURSIVE Joined(_)
Joined(frs) ==
  IF frs = <<>> THEN "" ELSE Head(frs).text \o "\n\n" \o Joined(Tail(frs))

\* The place of a path in the listing of the folder of the call.
Position(path) ==
  CHOOSE i \in 1..Len(Folder(args.episode_number.val).entries) :
    EpisodeFolder(args.episode_number.val) \o "/"
      \o Folder(args.episode_number.val).entries[i].name = path

\* C9: the result is the captions of the files in the order of the listing of
\* the folder, each followed by two line breaks.
C9_FragmentsInOrder ==
  (pc = "done" /\ outcome.kind = "str") =>
     /\ outcome.value = Joined(fragments)
     /\ \A i, j \in 1..Len(fragments) :
          i < j => Position(fragments[i].path) < Position(fragments[j].path)

\* C9 as the specification has it: every fragment, a song too, is followed by
\* one blank line and no more, so no fragment ends with a line break of its
\* own.
C9_OneBlankLine ==
  (pc = "done" /\ outcome.kind = "str") =>
     /\ outcome.value = Joined(fragments)
     /\ \A i \in 1..Len(fragments) :
          Char(fragments[i].text, Len(fragments[i].text)) # "\n"

\* A result of two fragments, the first of them a song.
C9_Witness ==
  /\ pc = "done" /\ outcome.kind = "str"
  /\ Len(fragments) = 2
  /\ Char(fragments[1].text, Len(fragments[1].text)) = "\n"

\* C10: for a frame rate above 0 and of at most 300, timestamp_to_frame of
\* frame_to_timestamp of a frame number is at most 1 away from it.
C10_RoundTripUpTo300 ==
  (codec.stage = "frame" /\ codec.num <= 300 * codec.den) =>
     /\ codec.back # NoneFrame
     /\ codec.back - codec.frame \in {-1, 0, 1}

\* C10 as the specification has it: for every frame rate above 0.
C10_RoundTrip ==
  codec.stage = "frame" => codec.back - codec.frame \in {-1, 0, 1}

\* A round trip at the frame rate 300 has ended one frame away.
C10_Witness ==
  /\ codec.stage = "frame" /\ codec.num = 300 /\ codec.den = 1
  /\ codec.back - codec.frame \in {-1, 1}


\* The text is H:MM:SS.CC: three fields between colons, the last split by one
\* dot, all of digits, the minutes, seconds and centiseconds of two digits.
IsClock(timestamp) ==
  LET hms == Split(timestamp, ":")
  IN /\ Len(hms) = 3
     /\ Len(Split(hms[3], ".")) = 2
     /\ \A field \in {hms[1], hms[2], Split(hms[3], ".")[1], Split(hms[3], ".")[2]} :
          Len(field) >= 1 /\ \A i \in 1..Len(field) : Char(field, i) \in Digits
     /\ Len(hms[2]) = 2
     /\ Len(Split(hms[3], ".")[1]) = 2
     /\ Len(Split(hms[3], ".")[2]) = 2

\* The fields of a text that IsClock, as numbers.
ClockFields(timestamp) ==
  LET hms == Split(timestamp, ":")
  IN [hours |-> ToInt(hms[1]), minutes |-> ToInt(hms[2]),
      seconds |-> ToInt(Split(hms[3], ".")[1]),
      centiseconds |-> ToInt(Split(hms[3], ".")[2])]

\* The instant a text that IsClock names, in centiseconds.
ClockValue(timestamp) ==
  LET f == ClockFields(timestamp)
  IN ((f.hours * 60 + f.minutes) * 60 + f.seconds) * 100 + f.centiseconds

Abs(n) == IF n < 0 THEN -n ELSE n

\* C11: for a frame number >= 0 and a frame rate > 0, frame_to_timestamp
\* returns H:MM:SS.CC with minutes and seconds in 0..59 and centiseconds in
\* 0..99 (centiseconds that round up to 100 are carried into the seconds,
\* minutes and hours), and the instant it names is frame / fps rounded to the
\* nearest centisecond.
C11_FieldsInRange ==
  (codec.stage = "timestamp" /\ codec.frame >= 0 /\ codec.num > 0) =>
    /\ IsClock(codec.timestamp)
    /\ ClockFields(codec.timestamp).minutes \in 0..59
    /\ ClockFields(codec.timestamp).seconds \in 0..59
    /\ ClockFields(codec.timestamp).centiseconds \in 0..99
    /\ 2 * Abs(ClockValue(codec.timestamp) * codec.num
               - codec.frame * codec.den * 100) <= codec.num

\* C11 happens: the centiseconds of the last second of a minute rounded up to
\* 100 and were carried.
C11_Witness ==
  /\ codec.stage = "timestamp" /\ codec.frame >= 0 /\ codec.num > 0
  /\ (codec.frame * codec.den) \div codec.num % 60 = 59
  /\ 200 * ((codec.frame * codec.den) % codec.num) >= 199 * codec.num
  /\ IsClock(codec.timestamp)
  /\ ClockFields(codec.timestamp).seconds = 0
  /\ ClockFields(codec.timestamp).centiseconds = 0

\* C12: frame_to_timestamp fails exactly when the frame rate is not above 0:
\* at 0 and at every negative frame rate the outcome is an error (None), not
\* a timestamp string, and at every frame rate above 0 it is a string.
C12_FailsExactlyWhenNotPositive ==
  codec.stage = "timestamp" => (codec.num <= 0 <=> codec.timestamp = NoneStr)

\* C13: remove_tags is idempotent: remove_tags applied to what remove_tags
\* returned gives the same string, also when the removal of a markup token
\* brings its neighbours together.
C13_Idempotent ==
  sanitizer.stage = "twice" => sanitizer.twice = sanitizer.once

\* C13 happens: remove_tags ran twice on a message whose markup tokens, taken
\* out with nothing in their place, would leave a new markup token.
C13_Witness ==
  /\ sanitizer.stage = "twice"
  /\ \E i \in 1..Len(sanitizer.message) :
       TagMatchLen(DeleteTags(sanitizer.message, 1), i) > 0
  /\ sanitizer.once # sanitizer.message

\* C14: every cue of a parsed Timeline that has a start and an end starts no
\* later than it ends: an entry whose end is before its start is dropped.
C14_StartNotAfterEnd ==
  \A path \in DOMAIN parsed : \A i \in 1..Len(parsed[path].subtitles) :
    (/\ parsed[path].subtitles[i].Start # NoneSeconds
     /\ parsed[path].subtitles[i].End # NoneSeconds) =>
       parsed[path].subtitles[i].Start <= parsed[path].subtitles[i].End

\* C18: when the first cue that holds the time of the frame has an empty
\* sanitized text, the file yields no caption for the frame, whatever the
\* style and the speaker of the cue (plain, sign or song).
C18_EmptyTextNoCaption ==
  (/\ last.suffix \in {".ass", ".srt"}
   /\ ~last.parse_raised /\ ~last.format_raised
   /\ args.num > 0
   /\ Containing(last.timeline.subtitles, args.frame_number.val,
                 args.num, args.den) # {}
   /\ last.timeline.subtitles[
        Min(Containing(last.timeline.subtitles, args.frame_number.val,
                       args.num, args.den))].Text = "") =>
     last.message = NoneStr

\* C15: on a timestamp text H:MM:SS.CC, also one with a single digit after
\* the dot, timestamp_to_frame gives round(timestamp_to_seconds(text) * fps):
\* the two functions read the same number of seconds from the same text.
C15_SameSeconds ==
  (codec.stage = "text" /\ timestamp_to_seconds(codec.timestamp) # NoneSeconds) =>
    codec.back \in {RoundDiv(timestamp_to_seconds(codec.timestamp) * codec.num,
                             100 * codec.den, tie) : tie \in BOOLEAN}

\* The frame that follows a posted frame: the next of its episode, or the
\* first of the next episode after the last of its episode.
Successor(post) ==
  IF post.frame < MaxFramesOf(Episodes, post.episode)
    THEN [episode |-> post.episode, frame |-> post.frame + 1]
    ELSE [episode |-> post.episode + 1, frame |-> 1]

\* C16: the frames are posted in consecutive increasing order from the frame
\* after the one in_progress held at first, no frame of an episode skipped or
\* posted twice over the runs, none above max_frames, at most fph by a run;
\* the persisted in_progress is at the last frame posted (or at frame 0 of the
\* next episode once the last frame of an episode is posted), so a run that a
\* failed download, message or post ended has left it unchanged.
C16_ConsecutiveFrames ==
  /\ poster.run_posts <= poster.fph
  /\ \A i \in 1..Len(poster.posts) :
       /\ poster.posts[i].episode \in DOMAIN Episodes
       /\ poster.posts[i].frame \in 1..MaxFramesOf(Episodes, poster.posts[i].episode)
       /\ poster.posts[i] = Successor(IF i = 1 THEN poster.start ELSE poster.posts[i - 1])
  /\ LET done == IF poster.posts = <<>> THEN poster.start
                 ELSE poster.posts[Len(poster.posts)]
     IN \/ poster.in_progress = done
        \/ /\ poster.in_progress = [episode |-> done.episode + 1, frame |-> 0]
           /\ done.frame = MaxFramesOf(Episodes, done.episode)

\* C16 happens: a run that a failed post ended came after frames of both
\* episodes were posted, more of them than one run posts.
C16_Witness ==
  /\ poster.stage = "idle"
  /\ poster.ended = "post"
  /\ Len(poster.posts) > poster.fph
  /\ \E i \in 1..Len(poster.posts) : poster.posts[i].episode = 2
  /\ poster.in_progress = poster.posts[Len(poster.posts)]

\* C17: the block scanner of parse_srt_file terminates on every finite
\* sequence of lines: every iteration of the outer loop leaves the line index
\* higher than it found it, and the scan of every file comes to its end.
C17_ScannerTerminates ==
  /\ [][scanner.stage = "scan" /\ scanner'.stage = "scan"
          => scanner'.st.i > scanner.st.i]_scanner
  /\ (scanner.stage = "scan" ~> scanner.stage = "done")

\* C17 happens: the scan of a file with a blank line, an index line and a
\* time range at its last line has come to its end, the index past the end.
C17_Witness ==
  /\ scanner.stage = "done"
  /\ scanner.st.i > Len(scanner.lines) + 1
  /\ \E a, b \in 1..Len(scanner.lines) :
       /\ Strip(scanner.lines[a]) = ""
       /\ IsDigit(Strip(scanner.lines[b]))
  /\ TimeLineGroups(scanner.lines[Len(scanner.lines)]) # <<>>

==============================================================================
